---- MODULE Spec2Model ----
\* The xarray client readers of tiled (tiled/client/xarray.py): the composition
\* of Variable, DataArray and Dataset readers out of a structure tree, in the
\* deferred (ClientDask...) and the immediate (Client...) policy.  A reader is
\* a record of its constructor arguments; every operation is executed on a pair
\* of roots, one per policy, built from the same arguments; the sub-readers an
\* operation constructs and the leaf fetches it issues are recorded, in order,
\* in its log.
EXTENDS Integers, Sequences, FiniteSets, TLC

VARIABLES root, out, nfetch

vars == <<root, out, nfetch>>

(* ------------------------------ bounds -------------------------------- *)

\* longest slice tuple handed to DataArrayReader.read
MaxSliceLen == 2
\* most coordinates a data array structure declares
MaxCoords == 2
\* most names in a columns argument
MaxCols == 2
\* a fetching operation starts only while fewer fetches than this were issued
MaxFetch == 1

(* ------------------------------ values -------------------------------- *)

Policies == {"deferred", "immediate"}

Absent == "<absent>"
ParamKeys == {"coord", "variable", "q"}

\* builtins.slice(None, None)
SliceAll == "slice(None, None)"
\* distinct slice objects, the k-th one used as the k-th entry of a tuple
SliceObjs == <<"s1", "s2", "s3", "s4">>

NoneArg == [kind |-> "none", items |-> <<>>]
SingleArg(s) == [kind |-> "single", items |-> <<s>>]
IterArg(t) == [kind |-> "iter", items |-> t]
TupleArg(t) == [kind |-> "tuple", items |-> t]

NoExc == [type |-> "none", at |-> <<>>]
NoVal == [kind |-> "none"]

Max(a, b) == IF a >= b THEN a ELSE b

SeqsUpTo(S, n) == UNION {[1..k -> S] : k \in 0..n}
InjSeqsUpTo(S, n) == {s \in SeqsUpTo(S, n) : \A i, j \in 1..Len(s) : s[i] = s[j] => i = j}
Range(s) == {s[i] : i \in 1..Len(s)}

(* --------------------------- structure tree --------------------------- *)

DimSize(d) == IF d = "x" THEN 10 ELSE 5

VariableStructure(id, dims) ==
    [id |-> id, dims |-> dims, attrs |-> "attrs",
     data |-> [id |-> Append(id, "data"),
               shape |-> [k \in 1..Len(dims) |-> DimSize(dims[k])]]]

CoordDims(c) == IF c = "t" THEN <<"x">> ELSE <<c>>

DataArrayStructure(name, dims, cnames) ==
    [id |-> <<"data_vars", name>>, name |-> name,
     variable |-> VariableStructure(<<"data_vars", name, "variable">>, dims),
     coords |-> [k \in 1..Len(cnames) |->
                   [name |-> cnames[k],
                    variable |-> VariableStructure(
                        <<"data_vars", name, "coords", cnames[k]>>, CoordDims(cnames[k]))]]]

DatasetStructure(vnames, dims, cnames, dcnames) ==
    [data_vars |-> [k \in 1..Len(vnames) |->
                      [name |-> vnames[k],
                       data_array |-> DataArrayStructure(vnames[k], dims, cnames)]],
     id |-> <<>>,
     coords |-> [k \in 1..Len(dcnames) |->
                   [name |-> dcnames[k],
                    variable |-> VariableStructure(<<"coords", dcnames[k]>>, <<dcnames[k]>>)]],
     attrs |-> "attrs"]

\* the name of the variable a structure node describes
NodeName(id) ==
    LET p == IF id[Len(id)] = "data" THEN SubSeq(id, 1, Len(id) - 1) ELSE id
    IN IF p[Len(p)] = "variable" THEN p[Len(p) - 1] ELSE p[Len(p)]

(* ----------------------------- class table ---------------------------- *)

ARRAY_READER(cls) ==
    CASE cls = "ClientDaskVariableReader" -> "ClientDaskArrayReader"
      [] cls = "ClientVariableReader" -> "ClientArrayReader"

\* VARIABLE_READER with ClientDataArrayReader inheriting its parent's
VARIABLE_READER_Inherited(cls) ==
    CASE cls = "ClientDaskDataArrayReader" -> "ClientDaskVariableReader"
      [] cls = "ClientDataArrayReader" -> "ClientDaskVariableReader"
      [] cls = "ClientDaskDatasetReader" -> "ClientDaskVariableReader"
      [] cls = "ClientDatasetReader" -> "ClientVariableReader"

VARIABLE_READER(cls) ==
    CASE cls = "ClientDaskDataArrayReader" -> "ClientDaskVariableReader"
      [] cls = "ClientDataArrayReader" -> "ClientVariableReader"
      [] cls = "ClientDaskDatasetReader" -> "ClientDaskVariableReader"
      [] cls = "ClientDatasetReader" -> "ClientVariableReader"

DATA_ARRAY_READER(cls) ==
    CASE cls = "ClientDaskDatasetReader" -> "ClientDaskDataArrayReader"
      [] cls = "ClientDatasetReader" -> "ClientDataArrayReader"

DefaultRoute(kind) ==
    CASE kind = "variable" -> "/variable/block"
      [] kind = "data_array" -> "/data_array/block"
      [] kind = "dataset" -> "/dataset/block"

RootClass(kind, pol) ==
    CASE kind = "variable" ->
           IF pol = "deferred" THEN "ClientDaskVariableReader" ELSE "ClientVariableReader"
      [] kind = "data_array" ->
           IF pol = "deferred" THEN "ClientDaskDataArrayReader" ELSE "ClientDataArrayReader"
      [] kind = "dataset" ->
           IF pol = "deferred" THEN "ClientDaskDatasetReader" ELSE "ClientDatasetReader"

DeferredClasses ==
    {"ClientDaskArrayReader", "ClientDaskVariableReader",
     "ClientDaskDataArrayReader", "ClientDaskDatasetReader"}
ImmediateClasses ==
    {"ClientArrayReader", "ClientVariableReader",
     "ClientDataArrayReader", "ClientDatasetReader"}

(* ------------------------- readers and the log ------------------------ *)

\* BaseArrayClientReader.__init__: keeps its arguments, fetches nothing
NewReader(cls, path, params, structure, route) ==
    [cls |-> cls, path |-> path, params |-> params,
     structure |-> structure, route |-> route]

\* {key: name, **params}
TagFirst(key, name, params) ==
    [k \in ParamKeys |->
        IF params[k] # Absent THEN params[k]
        ELSE IF k = key THEN name ELSE Absent]

\* what the log keeps of a reader: its class and its constructor arguments, the
\* structure node by its place in the structure tree
Args(reader) ==
    [cls |-> reader.cls, path |-> reader.path, params |-> reader.params,
     node |-> reader.structure.id, route |-> reader.route]

NewEv(self, reader) ==
    [ev |-> "new", by |-> self.cls, reader |-> Args(reader), arg |-> NoneArg, ok |-> TRUE]

FetchEv(reader, what, arg, ok) ==
    [ev |-> what, by |-> reader.cls, reader |-> Args(reader), arg |-> arg, ok |-> ok]

Emit(st, e) == [st EXCEPT !.log = Append(@, e)]
Raise(st, exc) == [st EXCEPT !.exc = exc]
Start == [log |-> <<>>, exc |-> NoExc]

\* evaluate e once and hand its value to F
Bind(e, F(_)) == CHOOSE y \in {F(x) : x \in {e}} : TRUE

(* --------------------------- leaf array reader ------------------------ *)

\* ARRAY_READER(...).read(slice): one data fetch for the array the reader is
\* for; the transport refuses the arrays in bad
ArrayRead(reader, slice, bad, st) ==
    IF reader.structure.id \in bad
    THEN [st |-> Raise(Emit(st, FetchEv(reader, "fetch", slice, FALSE)),
                       [type |-> "TransportError", at |-> reader.structure.id]),
          val |-> NoVal]
    ELSE [st |-> Emit(st, FetchEv(reader, "fetch", slice, TRUE)),
          val |-> [kind |-> "array", of |-> reader.structure.id, slice |-> slice]]

\* ARRAY_READER(...).read_block(block, slice): one block fetch
ArrayReadBlock(reader, block, slice, bad, st) ==
    LET arg == [kind |-> "block", items |-> <<block>> \o slice.items]
    IN IF reader.structure.id \in bad
       THEN [st |-> Raise(Emit(st, FetchEv(reader, "fetch", arg, FALSE)),
                          [type |-> "TransportError", at |-> reader.structure.id]),
             val |-> NoVal]
       ELSE [st |-> Emit(st, FetchEv(reader, "fetch", arg, TRUE)),
             val |-> [kind |-> "array", of |-> reader.structure.id, slice |-> arg]]

(* ------------------------ ClientDaskVariableReader -------------------- *)

VariableReadBlock(self, block, slice, bad, st) ==
    LET structure == self.structure
        array_source == NewReader(ARRAY_READER(self.cls), self.path, self.params,
                                  structure.data, self.route)
    IN ArrayReadBlock(array_source, block, slice, bad, Emit(st, NewEv(self, array_source)))

\* VariableRead fetching a second time when the first fetch fails
VariableReadRetry(self, slice, bad, st) ==
    LET structure == self.structure
        array_source == NewReader(ARRAY_READER(self.cls), self.path, self.params,
                                  structure.data, self.route)
    IN Bind(ArrayRead(array_source, slice, bad, Emit(st, NewEv(self, array_source))),
            LAMBDA r :
               IF r.st.exc # NoExc
               THEN ArrayRead(array_source, slice, bad, Raise(r.st, NoExc))
               ELSE [st |-> r.st,
                     val |-> [kind |-> "Variable", dims |-> structure.dims,
                              data |-> r.val, attrs |-> structure.attrs]])

VariableRead(self, slice, bad, st) ==
    LET structure == self.structure
        array_source == NewReader(ARRAY_READER(self.cls), self.path, self.params,
                                  structure.data, self.route)
    IN Bind(ArrayRead(array_source, slice, bad, Emit(st, NewEv(self, array_source))),
            LAMBDA r :
               IF r.st.exc # NoExc THEN r
               ELSE [st |-> r.st,
                     val |-> [kind |-> "Variable", dims |-> structure.dims,
                              data |-> r.val, attrs |-> structure.attrs]])

VariableLen(self, st) ==
    LET shape == self.structure.data.shape
    IN IF Len(shape) = 0
       THEN [st |-> Raise(st, [type |-> "IndexError", at |-> self.structure.id]), val |-> NoVal]
       ELSE [st |-> st, val |-> [kind |-> "int", n |-> shape[1]]]

(* ------------------------ ClientDaskDataArrayReader ------------------- *)

DataArrayReadBlock(self, block, slice, bad, st) ==
    LET structure == self.structure
        variable == structure.variable
        variable_source == NewReader(VARIABLE_READER(self.cls), self.path, self.params,
                                     variable, self.route)
    IN VariableReadBlock(variable_source, block, slice, bad,
                         Emit(st, NewEv(self, variable_source)))

\* VARIABLE_READER(..., params={"coord": name, **self._params}, structure=variable, ...)
CoordReader(self, name, variable) ==
    NewReader(VARIABLE_READER(self.cls), self.path, TagFirst("coord", name, self.params),
              variable, self.route)

RECURSIVE CoordsLoop(_, _, _, _)
CoordsLoop(self, k, st, result) ==
    LET items == self.structure.coords
    IN IF k > Len(items) THEN [st |-> st, val |-> result]
       ELSE LET variable_source == CoordReader(self, items[k].name, items[k].variable)
            IN CoordsLoop(self, k + 1, Emit(st, NewEv(self, variable_source)),
                          Append(result, [name |-> items[k].name, value |-> variable_source]))

Normalize(slice) ==
    CASE slice.kind = "none" -> <<>>
      [] slice.kind = "iter" -> slice.items
      [] OTHER -> <<slice.items[1]>>

\* ZipLongest handing the first entry of the tuple to every coordinate
ZipFirstEntry(slice, items, k) ==
    [coord_slice |-> IF Len(slice) > 0 THEN slice[1] ELSE SliceAll,
     filled |-> k > Len(items),
     item |-> IF k <= Len(items) THEN items[k] ELSE [name |-> SliceAll]]

\* the k-th pair of itertools.zip_longest(slice, coords.items(), fillvalue=SliceAll):
\* where either runs out the fill value stands in its place
ZipLongest(slice, items, k) ==
    [coord_slice |-> IF k <= Len(slice) THEN slice[k] ELSE SliceAll,
     filled |-> k > Len(items),
     item |-> IF k <= Len(items) THEN items[k] ELSE [name |-> SliceAll]]

\* for coord_slice, (name, variable) in itertools.zip_longest(...)
RECURSIVE ReadCoordsLoop(_, _, _, _, _, _)
ReadCoordsLoop(self, slice, k, bad, st, coords) ==
    LET items == self.structure.coords
        pair == ZipLongest(slice, items, k)
    IN IF st.exc # NoExc \/ k > Max(Len(slice), Len(items))
       THEN [st |-> st, val |-> coords]
       ELSE IF pair.filled
       THEN \* the fill value cannot be unpacked into (name, variable)
            [st |-> Raise(st, [type |-> "TypeError", at |-> <<>>]), val |-> coords]
       ELSE LET variable_source == CoordReader(self, pair.item.name, pair.item.variable)
            IN Bind(VariableRead(variable_source, SingleArg(pair.coord_slice), bad,
                                 Emit(st, NewEv(self, variable_source))),
                    LAMBDA r :
                       ReadCoordsLoop(self, slice, k + 1, bad, r.st,
                          IF r.st.exc # NoExc THEN coords
                          ELSE Append(coords, [name |-> pair.item.name, value |-> r.val])))

\* DataArrayCoords reading each coordinate as it builds the mapping
DataArrayCoordsReading(self, st) == ReadCoordsLoop(self, <<>>, 1, {}, st, <<>>)

DataArrayCoords(self, st) == CoordsLoop(self, 1, st, <<>>)

DataArrayRead(self, slice_arg, bad, st) ==
    LET slice == Normalize(slice_arg)
        structure == self.structure
        variable == structure.variable
        variable_source == NewReader(VARIABLE_READER(self.cls), self.path, self.params,
                                     variable, self.route)
    IN Bind(VariableRead(variable_source, TupleArg(slice), bad,
                         Emit(st, NewEv(self, variable_source))),
            LAMBDA data :
               IF data.st.exc # NoExc THEN data
               ELSE Bind(ReadCoordsLoop(self, slice, 1, bad, data.st, <<>>),
                         LAMBDA c :
                            IF c.st.exc # NoExc THEN [st |-> c.st, val |-> NoVal]
                            ELSE [st |-> c.st,
                                  val |-> [kind |-> "DataArray", data |-> data.val,
                                           coords |-> c.val, name |-> structure.name]]))

DataArrayLen(self, st) ==
    LET shape == self.structure.variable.data.shape
    IN IF Len(shape) = 0
       THEN [st |-> Raise(st, [type |-> "IndexError", at |-> self.structure.variable.id]),
             val |-> NoVal]
       ELSE [st |-> st, val |-> [kind |-> "int", n |-> shape[1]]]

(* ------------------------ ClientDaskDatasetReader --------------------- *)

NoCols == [kind |-> "none", items |-> <<>>]
ListCols(t) == [kind |-> "list", items |-> t]
StrKey(name) == [kind |-> "str", items |-> <<name>>]

\* name in columns; the names of the model are such that none is a proper
\* substring of another, so membership in a str is equality with it
In(name, columns) == name \in Range(columns.items)

RECURSIVE BuildDataVarsLoop(_, _, _, _, _)
BuildDataVarsLoop(self, columns, k, st, data_vars) ==
    LET items == self.structure.data_vars
    IN IF k > Len(items) THEN [st |-> st, val |-> data_vars]
       ELSE IF columns.kind # "none" /\ ~In(items[k].name, columns)
       THEN BuildDataVarsLoop(self, columns, k + 1, st, data_vars)
       ELSE LET data_array_source ==
                    NewReader(DATA_ARRAY_READER(self.cls), self.path,
                              TagFirst("variable", items[k].name, self.params),
                              items[k].data_array, self.route)
            IN BuildDataVarsLoop(self, columns, k + 1,
                   Emit(st, NewEv(self, data_array_source)),
                   Append(data_vars, [name |-> items[k].name, value |-> data_array_source]))

_build_data_vars(self, columns, st) == BuildDataVarsLoop(self, columns, 1, st, <<>>)

RECURSIVE BuildCoordsLoop(_, _, _, _, _)
BuildCoordsLoop(self, columns, k, st, coords) ==
    LET items == self.structure.coords
    IN IF k > Len(items) THEN [st |-> st, val |-> coords]
       ELSE IF columns.kind # "none" /\ ~In(items[k].name, columns)
       THEN BuildCoordsLoop(self, columns, k + 1, st, coords)
       ELSE LET variable_source ==
                    NewReader(VARIABLE_READER(self.cls), self.path,
                              TagFirst("variable", items[k].name, self.params),
                              items[k].variable, self.route)
            IN BuildCoordsLoop(self, columns, k + 1,
                   Emit(st, NewEv(self, variable_source)),
                   Append(coords, [name |-> items[k].name, value |-> variable_source]))

\* _build_coords leaving the column filter out
BuildCoordsUnfiltered(self, columns, st) == BuildCoordsLoop(self, NoCols, 1, st, <<>>)

_build_coords(self, columns, st) == BuildCoordsLoop(self, columns, 1, st, <<>>)

DatasetDataVars(self, st) == _build_data_vars(self, NoCols, st)

DatasetCoords(self, st) == _build_coords(self, NoCols, st)

\* {k: v.read() for k, v in data_vars.items()}
RECURSIVE ReadDataVars(_, _, _, _, _)
ReadDataVars(data_vars, k, bad, st, result) ==
    IF st.exc # NoExc \/ k > Len(data_vars) THEN [st |-> st, val |-> result]
    ELSE Bind(DataArrayRead(data_vars[k].value, NoneArg, bad, st),
              LAMBDA r :
                 ReadDataVars(data_vars, k + 1, bad, r.st,
                    IF r.st.exc # NoExc THEN result
                    ELSE Append(result, [name |-> data_vars[k].name, value |-> r.val])))

\* {k: v.read() for k, v in coords.items()}
RECURSIVE ReadCoords(_, _, _, _, _)
ReadCoords(coords, k, bad, st, result) ==
    IF st.exc # NoExc \/ k > Len(coords) THEN [st |-> st, val |-> result]
    ELSE Bind(VariableRead(coords[k].value, NoneArg, bad, st),
              LAMBDA r :
                 ReadCoords(coords, k + 1, bad, r.st,
                    IF r.st.exc # NoExc THEN result
                    ELSE Append(result, [name |-> coords[k].name, value |-> r.val])))

DatasetRead(self, columns, bad, st) ==
    Bind(_build_data_vars(self, columns, st), LAMBDA data_vars :
    Bind(_build_coords(self, columns, data_vars.st), LAMBDA coords :
    Bind(ReadDataVars(data_vars.val, 1, bad, coords.st, <<>>), LAMBDA dv :
    Bind(ReadCoords(coords.val, 1, bad, dv.st, <<>>), LAMBDA co :
        IF co.st.exc # NoExc THEN [st |-> co.st, val |-> NoVal]
        ELSE [st |-> co.st,
              val |-> [kind |-> "Dataset", data_vars |-> dv.val,
                       coords |-> co.val, attrs |-> self.structure.attrs]]))))

\* xarray.Dataset.__getitem__(name): a data variable as it is, a coordinate as
\* a DataArray of its Variable
DatasetItem(ds, name, st) ==
    IF \E i \in 1..Len(ds.data_vars) : ds.data_vars[i].name = name
    THEN [st |-> st,
          val |-> ds.data_vars[CHOOSE i \in 1..Len(ds.data_vars) :
                                   ds.data_vars[i].name = name].value]
    ELSE IF \E i \in 1..Len(ds.coords) : ds.coords[i].name = name
    THEN LET c == ds.coords[CHOOSE i \in 1..Len(ds.coords) : ds.coords[i].name = name]
         IN [st |-> st,
             val |-> [kind |-> "DataArray", data |-> c.value,
                      coords |-> <<c>>, name |-> name]]
    ELSE [st |-> Raise(st, [type |-> "KeyError", at |-> <<name>>]), val |-> NoVal]

\* DatasetGetItem without the dispatch on the key's type
DatasetGetItemNoDispatch(self, columns, bad, st) == DatasetRead(self, columns, bad, st)

DatasetGetItem(self, columns, bad, st) ==
    IF columns.kind = "str"
    THEN Bind(DatasetRead(self, ListCols(columns.items), bad, st),
              LAMBDA r : IF r.st.exc # NoExc THEN r
                         ELSE Bind(r.val, LAMBDA ds : DatasetItem(ds, columns.items[1], r.st)))
    ELSE DatasetRead(self, columns, bad, st)

\* DatasetIter yielding the coordinate names after the data variables
DatasetIterAllKeys(self, st) ==
    LET data_vars == self.structure.data_vars
        coords == self.structure.coords
    IN [st |-> st,
        val |-> [kind |-> "names",
                 items |-> [k \in 1..Len(data_vars) |-> data_vars[k].name]
                           \o [k \in 1..Len(coords) |-> coords[k].name]]]

DatasetIter(self, st) ==
    LET data_vars == self.structure.data_vars
    IN [st |-> st,
        val |-> [kind |-> "names",
                 items |-> [k \in 1..Len(data_vars) |-> data_vars[k].name]]]

(* ------------------------------- inputs ------------------------------- *)

DimsChoices == {<<>>, <<"x", "y">>}
CoordNames == {"x", "y", "t"}
VarNameSeqs == {<<"temp">>, <<"pres", "temp">>}
DatasetCoordSeqs == {<<>>, <<"x">>}
DatasetLayouts == {[dims |-> <<"x", "y">>, cnames |-> <<"x", "y">>],
                   [dims |-> <<"x">>, cnames |-> <<>>]}
ColNames == {"temp", "pres", "x"}
Blocks == {"b0"}

NoParams == [k \in ParamKeys |-> Absent]
RootParams ==
    {NoParams,
     [NoParams EXCEPT !["coord"] = "x"],
     [NoParams EXCEPT !["variable"] = "temp", !["q"] = "1"]}

VariableStructures == {VariableStructure(<<"coords", "x">>, d) : d \in DimsChoices}
DataArrayStructures ==
    {DataArrayStructure("temp", d, c) : d \in DimsChoices,
                                        c \in InjSeqsUpTo(CoordNames, MaxCoords)}
DatasetStructures ==
    {DatasetStructure(v, l.dims, l.cnames, c) :
        v \in VarNameSeqs, l \in DatasetLayouts, c \in DatasetCoordSeqs}

StructuresOf(kind) ==
    CASE kind = "variable" -> VariableStructures
      [] kind = "data_array" -> DataArrayStructures
      [] kind = "dataset" -> DatasetStructures

Roots ==
    UNION {{[kind |-> kind, path |-> "/node", params |-> p, structure |-> s,
             route |-> DefaultRoute(kind)] : p \in RootParams, s \in StructuresOf(kind)}
           : kind \in {"variable", "data_array", "dataset"}}

SliceArgs ==
    {NoneArg, SingleArg(SliceObjs[1])}
        \cup {IterArg(SubSeq(SliceObjs, 1, n)) : n \in 0..MaxSliceLen}

GetItemArgs == {SingleArg(SliceObjs[1]), IterArg(<<SliceObjs[1]>>)}
BlockSliceArgs == {NoneArg, SingleArg(SliceObjs[1])}

ColumnArgs == {NoCols} \cup {ListCols(t) : t \in InjSeqsUpTo(ColNames, MaxCols)}
KeyArgs == {StrKey(n) : n \in ColNames}
               \cup {ListCols(t) : t \in InjSeqsUpTo(ColNames, MaxCols)}

CoordArrayIds(coords) == {coords[k].variable.data.id : k \in 1..Len(coords)}
DataArrayIds(da) == {da.variable.data.id} \cup CoordArrayIds(da.coords)

\* the leaf arrays under a root
ArrayIds(r) ==
    CASE r.kind = "variable" -> {r.structure.data.id}
      [] r.kind = "data_array" -> DataArrayIds(r.structure)
      [] r.kind = "dataset" ->
           UNION {DataArrayIds(r.structure.data_vars[k].data_array) :
                     k \in 1..Len(r.structure.data_vars)}
           \cup CoordArrayIds(r.structure.coords)

\* the transport serves every fetch, or refuses the fetches of one array
BadSets(r) == {{}} \cup {{a} : a \in ArrayIds(r)}

(* ---------------------------- state machine --------------------------- *)

\* the root reader of a policy, built from the root's constructor arguments
Root(pol) ==
    NewReader(RootClass(root.kind, pol), root.path, root.params, root.structure, root.route)

Fetches(log) == Cardinality({i \in 1..Len(log) : log[i].ev = "fetch"})

Outcome(op, arg, r) ==
    [op |-> op, arg |-> arg, log |-> r.st.log, exc |-> r.st.exc, val |-> r.val]

Constructed == [st |-> Start, val |-> NoVal]

MayFetch == \A p \in Policies : nfetch[p] < MaxFetch

\* res[p] is what the operation did on the root of policy p
Record(op, arg, res) ==
    /\ out' = [p \in Policies |-> Outcome(op, arg, res[p])]
    /\ nfetch' = [p \in Policies |-> nfetch[p] + Fetches(res[p].st.log)]
    /\ UNCHANGED root

Init ==
    /\ root \in Roots
    /\ out = [p \in Policies |-> Outcome("construct", NoneArg, Constructed)]
    /\ nfetch = [p \in Policies |-> 0]

\* a reader is a disposable view: a new root over the same structure node
Construct ==
    /\ \E params \in RootParams : root' = [root EXCEPT !.params = params]
    /\ out' = [p \in Policies |-> Outcome("construct", NoneArg, Constructed)]
    /\ UNCHANGED nfetch

OpVariableRead ==
    /\ root.kind = "variable" /\ MayFetch
    /\ \E slice \in SliceArgs, bad \in BadSets(root) :
          \E res \in {[p \in Policies |-> VariableRead(Root(p), slice, bad, Start)]} :
             Record("Variable.read", slice, res)

OpVariableGetItem ==
    /\ root.kind = "variable" /\ MayFetch
    /\ \E slice \in GetItemArgs, bad \in BadSets(root) :
          \E res \in {[p \in Policies |-> VariableRead(Root(p), slice, bad, Start)]} :
             Record("Variable.getitem", slice, res)

OpVariableReadBlock ==
    /\ root.kind = "variable" /\ MayFetch
    /\ \E block \in Blocks, slice \in BlockSliceArgs,
          bad \in BadSets(root) :
          \E res \in {[p \in Policies |-> VariableReadBlock(Root(p), block, slice, bad, Start)]} :
             Record("Variable.read_block", slice, res)

OpVariableLen ==
    /\ root.kind = "variable"
    /\ \E res \in {[p \in Policies |-> VariableLen(Root(p), Start)]} :
          Record("Variable.len", NoneArg, res)

OpDataArrayRead ==
    /\ root.kind = "data_array" /\ MayFetch
    /\ \E slice \in SliceArgs, bad \in BadSets(root) :
          \E res \in {[p \in Policies |-> DataArrayRead(Root(p), slice, bad, Start)]} :
             Record("DataArray.read", slice, res)

OpDataArrayGetItem ==
    /\ root.kind = "data_array" /\ MayFetch
    /\ \E slice \in GetItemArgs, bad \in BadSets(root) :
          \E res \in {[p \in Policies |-> DataArrayRead(Root(p), slice, bad, Start)]} :
             Record("DataArray.getitem", slice, res)

OpDataArrayReadBlock ==
    /\ root.kind = "data_array" /\ MayFetch
    /\ \E block \in Blocks, slice \in BlockSliceArgs,
          bad \in BadSets(root) :
          \E res \in {[p \in Policies |-> DataArrayReadBlock(Root(p), block, slice, bad, Start)]} :
             Record("DataArray.read_block", slice, res)

OpDataArrayCoords ==
    /\ root.kind = "data_array"
    /\ \E res \in {[p \in Policies |-> DataArrayCoords(Root(p), Start)]} :
          Record("DataArray.coords", NoneArg, res)

OpDataArrayLen ==
    /\ root.kind = "data_array"
    /\ \E res \in {[p \in Policies |-> DataArrayLen(Root(p), Start)]} :
          Record("DataArray.len", NoneArg, res)

OpDatasetRead ==
    /\ root.kind = "dataset" /\ MayFetch
    /\ \E columns \in ColumnArgs, bad \in BadSets(root) :
          \E res \in {[p \in Policies |-> DatasetRead(Root(p), columns, bad, Start)]} :
             Record("Dataset.read", columns, res)

OpDatasetGetItem ==
    /\ root.kind = "dataset" /\ MayFetch
    /\ \E columns \in KeyArgs, bad \in BadSets(root) :
          \E res \in {[p \in Policies |-> DatasetGetItem(Root(p), columns, bad, Start)]} :
             Record("Dataset.getitem", columns, res)

OpDatasetDataVars ==
    /\ root.kind = "dataset"
    /\ \E res \in {[p \in Policies |-> DatasetDataVars(Root(p), Start)]} :
          Record("Dataset.data_vars", NoneArg, res)

OpDatasetCoords ==
    /\ root.kind = "dataset"
    /\ \E res \in {[p \in Policies |-> DatasetCoords(Root(p), Start)]} :
          Record("Dataset.coords", NoneArg, res)

OpDatasetIter ==
    /\ root.kind = "dataset"
    /\ \E res \in {[p \in Policies |-> DatasetIter(Root(p), Start)]} :
          Record("Dataset.iter", NoneArg, res)

Next ==
    \/ Construct
    \/ OpVariableRead
    \/ OpVariableGetItem
    \/ OpVariableReadBlock
    \/ OpVariableLen
    \/ OpDataArrayRead
    \/ OpDataArrayGetItem
    \/ OpDataArrayReadBlock
    \/ OpDataArrayCoords
    \/ OpDataArrayLen
    \/ OpDatasetRead
    \/ OpDatasetGetItem
    \/ OpDatasetDataVars
    \/ OpDatasetCoords
    \/ OpDatasetIter

Spec == Init /\ [][Next]_vars

(* ------------------------------- claims ------------------------------- *)

DataArrayReadOps == {"DataArray.read", "DataArray.getitem"}
DatasetReadOps == {"Dataset.read", "Dataset.getitem"}
ReadOps == {"Variable.read", "Variable.getitem"} \cup DataArrayReadOps \cup DatasetReadOps
NonFetchOps == {"construct", "Variable.len", "DataArray.len", "DataArray.coords",
                "Dataset.coords", "Dataset.data_vars", "Dataset.iter"}

FetchIdx(log) == {i \in 1..Len(log) : log[i].ev = "fetch"}
NewIdx(log) == {i \in 1..Len(log) : log[i].ev = "new"}
AllFetchesOk(log) == \A i \in FetchIdx(log) : log[i].ok

\* the slice tuple a read argument stands for
TupleOf(arg) == IF arg.kind = "none" THEN <<>> ELSE arg.items

\* the fetches of the array of the k-th declared coordinate of the root data array
CoordFetches(log, k) ==
    {i \in FetchIdx(log) : log[i].reader.node = root.structure.coords[k].variable.data.id}

\* C1: a DataArrayReader.read whose fetches all succeed completes and returns a
\* DataArray, whatever the length of the slice tuple against the number of
\* coordinates
C1_ReadCompletesForEveryTupleLength ==
    \A p \in Policies :
        (out[p].op \in DataArrayReadOps /\ AllFetchesOk(out[p].log))
            => (out[p].exc = NoExc /\ out[p].val.kind = "DataArray")

\* the entry of tuple t the data variable receives along its dimension name
DimSlice(t, dims, name) ==
    LET i == CHOOSE j \in 1..Len(dims) : dims[j] = name
    IN IF i <= Len(t) THEN t[i] ELSE SliceAll

\* C2: in DataArrayReader.read every coordinate named like a dimension of the
\* data variable is read with the slice entry the data variable received along
\* that dimension (select-all where the tuple has none)
C2_CoordsSlicedAlongTheirDimension ==
    \A p \in Policies :
        out[p].op \in DataArrayReadOps =>
            \A k \in 1..Len(root.structure.coords) :
                root.structure.coords[k].name \in Range(root.structure.variable.dims) =>
                    \A i \in CoordFetches(out[p].log, k) :
                        out[p].log[i].arg =
                            SingleArg(DimSlice(TupleOf(out[p].arg),
                                               root.structure.variable.dims,
                                               root.structure.coords[k].name))

\* C3: DataArrayReader.read normalizes its argument to a tuple, hands the whole
\* tuple to the main variable's read, and reads the k-th declared coordinate
\* with the k-th entry of the tuple, or with slice(None, None) past its end; a
\* read that returns has read every coordinate once
C3_DefaultFill ==
    \A p \in Policies :
        out[p].op \in DataArrayReadOps =>
            LET t == TupleOf(out[p].arg)
                log == out[p].log
                first == CHOOSE i \in FetchIdx(log) : \A j \in FetchIdx(log) : i <= j
            IN /\ FetchIdx(log) # {}
               /\ log[first].reader.node = root.structure.variable.data.id
               /\ log[first].arg = TupleArg(t)
               /\ \A k \in 1..Len(root.structure.coords) :
                     /\ \A i \in CoordFetches(log, k) :
                           log[i].arg = SingleArg(IF k <= Len(t) THEN t[k] ELSE SliceAll)
                     /\ out[p].exc = NoExc => Cardinality(CoordFetches(log, k)) = 1

C3_Witness ==
    /\ root.kind = "data_array"
    /\ out["immediate"].op = "DataArray.read"
    /\ out["immediate"].exc = NoExc
    /\ out["immediate"].arg = IterArg(<<"s1">>)
    /\ Len(root.structure.coords) = 2
    /\ \E i, j \in FetchIdx(out["immediate"].log) :
          /\ out["immediate"].log[i].reader.node = root.structure.coords[1].variable.data.id
          /\ out["immediate"].log[i].arg = SingleArg("s1")
          /\ out["immediate"].log[j].reader.node = root.structure.coords[2].variable.data.id
          /\ out["immediate"].log[j].arg = SingleArg(SliceAll)

DataVarNames == {root.structure.data_vars[k].name : k \in 1..Len(root.structure.data_vars)}
DatasetCoordNames == {root.structure.coords[k].name : k \in 1..Len(root.structure.coords)}
Names(mapping) == {mapping[k].name : k \in 1..Len(mapping)}

\* C4: DatasetReader[key] for a string key naming a data variable or a
\* dataset-level coordinate is the single DataArray read(columns=[key])[key];
\* for a non-string key K it is the Dataset read(columns=K), which holds only
\* names of K
C4_GetItemAgreesWithRead ==
    \A p \in Policies :
        (out[p].op = "Dataset.getitem" /\ AllFetchesOk(out[p].log)) =>
            LET key == out[p].arg
            IN IF key.kind = "str"
               THEN key.items[1] \in DataVarNames \cup DatasetCoordNames =>
                      LET read == DatasetRead(Root(p), ListCols(<<key.items[1]>>), {}, Start)
                      IN /\ out[p].exc = NoExc
                         /\ out[p].val.kind = "DataArray"
                         /\ out[p].val = DatasetItem(read.val, key.items[1], read.st).val
               ELSE /\ out[p].exc = NoExc
                    /\ out[p].val.kind = "Dataset"
                    /\ out[p].val = DatasetRead(Root(p), key, {}, Start).val
                    /\ Names(out[p].val.data_vars) \cup Names(out[p].val.coords)
                          \subseteq Range(key.items)

C4_Witness ==
    /\ root.kind = "dataset"
    /\ out["deferred"].op = "Dataset.getitem"
    /\ out["deferred"].arg = StrKey("x")
    /\ "x" \in DatasetCoordNames
    /\ out["deferred"].exc = NoExc
    /\ out["deferred"].val.kind = "DataArray"
    /\ out["deferred"].val.name = "x"

\* C5: iterating a DatasetReader yields the names of the structure's data_vars,
\* each once and in declared order, and no name that is only a coordinate
C5_IterYieldsDataVars ==
    \A p \in Policies :
        out[p].op = "Dataset.iter" =>
            LET names == out[p].val.items
                data_vars == root.structure.data_vars
            IN /\ Len(names) = Len(data_vars)
               /\ \A k \in 1..Len(names) : names[k] = data_vars[k].name
               /\ \A i, j \in 1..Len(names) : names[i] = names[j] => i = j
               /\ \A c \in DatasetCoordNames \ DataVarNames : c \notin Range(names)

C5_Witness ==
    /\ root.kind = "dataset"
    /\ out["immediate"].op = "Dataset.iter"
    /\ out["immediate"].val.items = <<"pres", "temp">>
    /\ "x" \in DatasetCoordNames

\* C6 as stated: during read(columns=C) every sub-reader constructed is for a
\* variable whose name is in C
C6_EverySubReaderNamedInColumns ==
    \A p \in Policies :
        (out[p].op = "Dataset.read" /\ out[p].arg.kind = "list") =>
            \A i \in NewIdx(out[p].log) :
                NodeName(out[p].log[i].reader.node) \in Range(out[p].arg.items)

\* the accessor's mapping holds one sub-reader for each entry of the structure
FullMapping(val, items) ==
    /\ Len(val) = Len(items)
    /\ \A k \in 1..Len(items) :
          val[k].name = items[k].name /\ val[k].value.structure.id # <<>>

\* C6 amended: during read(columns=C) every sub-reader the DatasetReader itself
\* constructs is for a name in C, and every other sub-reader constructed is a
\* variable, coordinate or array reader below the data array or coordinate of
\* a name in C; the accessors coords and data_vars map every name of the
\* structure to a sub-reader, in every state
C6_ColumnFilter ==
    \A p \in Policies :
        /\ (out[p].op = "Dataset.read" /\ out[p].arg.kind = "list") =>
              \A i \in NewIdx(out[p].log) :
                 LET e == out[p].log[i]
                 IN /\ e.reader.node[2] \in Range(out[p].arg.items)
                    /\ e.by = RootClass("dataset", p) =>
                          NodeName(e.reader.node) \in Range(out[p].arg.items)
        /\ out[p].op = "Dataset.coords" =>
              /\ FullMapping(out[p].val, root.structure.coords)
              /\ \A k \in 1..Len(out[p].val) :
                    out[p].val[k].value.structure = root.structure.coords[k].variable
        /\ out[p].op = "Dataset.data_vars" =>
              /\ FullMapping(out[p].val, root.structure.data_vars)
              /\ \A k \in 1..Len(out[p].val) :
                    out[p].val[k].value.structure = root.structure.data_vars[k].data_array

C6_Witness ==
    /\ root.kind = "dataset"
    /\ out["deferred"].op = "Dataset.read"
    /\ out["deferred"].arg = ListCols(<<"temp">>)
    /\ out["deferred"].exc = NoExc
    /\ DataVarNames = {"temp", "pres"}
    /\ DatasetCoordNames = {"x"}
    /\ \E i \in NewIdx(out["deferred"].log) :
          out["deferred"].log[i].reader.node = <<"data_vars", "temp", "coords", "y">>

\* C7: in a read no fetch is issued twice; a failed fetch is the last event of
\* the read, the read ends with that failure and returns no container; a read
\* returns a container only when every fetch it issued succeeded
C7_AllOrNothing ==
    \A p \in Policies :
        out[p].op \in ReadOps =>
            LET log == out[p].log
            IN /\ \A i, j \in FetchIdx(log) :
                     log[i].reader.node = log[j].reader.node => i = j
               /\ \A i \in FetchIdx(log) :
                     ~log[i].ok =>
                        /\ i = Len(log)
                        /\ out[p].exc = [type |-> "TransportError",
                                         at |-> log[i].reader.node]
                        /\ out[p].val = NoVal
               /\ out[p].val # NoVal => (out[p].exc = NoExc /\ AllFetchesOk(log))

C7_Witness ==
    /\ root.kind = "dataset"
    /\ out["immediate"].op = "Dataset.read"
    /\ out["immediate"].exc.type = "TransportError"
    /\ Cardinality(FetchIdx(out["immediate"].log)) >= 2
    /\ Cardinality(FetchIdx(out["immediate"].log)) < Cardinality(ArrayIds(root))
    /\ out["immediate"].val = NoVal

\* C8: constructing a reader, the coords and data_vars accessors, iteration and
\* length leave the number of data fetches issued as it was
C8_NoFetchOutsideRead ==
    [][\A p \in Policies : out'[p].op \in NonFetchOps => nfetch'[p] = nfetch[p]]_vars

C8_Witness ==
    /\ out["deferred"].op = "DataArray.coords"
    /\ Len(out["deferred"].val) = 2
    /\ nfetch["deferred"] > 0

\* C9: every coordinate sub-reader a DataArrayReader builds carries coord equal
\* to the coordinate's own name and the parent's other parameters unchanged,
\* and the sub-reader of the main variable carries the parent's parameters
C9_CoordTag ==
    \A p \in Policies :
        root.kind = "data_array" =>
            \A i \in NewIdx(out[p].log) :
                LET e == out[p].log[i]
                IN e.by = RootClass("data_array", p) =>
                      IF e.reader.node = root.structure.variable.id
                      THEN e.reader.params = root.params
                      ELSE /\ e.reader.params["coord"] = NodeName(e.reader.node)
                           /\ \A k \in ParamKeys \ {"coord"} :
                                 e.reader.params[k] = root.params[k]

ClassKind(cls) ==
    CASE cls \in {"ClientDaskArrayReader", "ClientArrayReader"} -> "array"
      [] cls \in {"ClientDaskVariableReader", "ClientVariableReader"} -> "variable"
      [] cls \in {"ClientDaskDataArrayReader", "ClientDataArrayReader"} -> "data_array"
      [] cls \in {"ClientDaskDatasetReader", "ClientDatasetReader"} -> "dataset"

Unclassed(e) ==
    [ev |-> e.ev, by |-> ClassKind(e.by), kind |-> ClassKind(e.reader.cls),
     path |-> e.reader.path, params |-> e.reader.params, node |-> e.reader.node,
     route |-> e.reader.route, arg |-> e.arg, ok |-> e.ok]

ClassesOf(pol) == IF pol = "deferred" THEN DeferredClasses ELSE ImmediateClasses

\* C10: the deferred and the immediate tree construct the same sub-readers and
\* issue the same fetches in the same order, with the same path, params,
\* structure node and route, and differ only in the class at each level;
\* every reader below a root is of the root's policy
C10_PoliciesShareComposition ==
    /\ Len(out["deferred"].log) = Len(out["immediate"].log)
    /\ \A i \in 1..Len(out["deferred"].log) :
          Unclassed(out["deferred"].log[i]) = Unclassed(out["immediate"].log[i])
    /\ out["deferred"].exc = out["immediate"].exc
    /\ \A p \in Policies : \A i \in 1..Len(out[p].log) :
          out[p].log[i].by \in ClassesOf(p) /\ out[p].log[i].reader.cls \in ClassesOf(p)

C10_Witness ==
    /\ root.kind = "dataset"
    /\ out["deferred"].op = "Dataset.read"
    /\ out["deferred"].exc = NoExc
    /\ \E i \in NewIdx(out["deferred"].log) :
          /\ out["deferred"].log[i].reader.cls = "ClientDaskArrayReader"
          /\ out["immediate"].log[i].reader.cls = "ClientArrayReader"
          /\ out["deferred"].log[i].reader.node = <<"data_vars", "pres", "coords", "y", "data">>

====
